---- MODULE Spec2Model ----
(***************************************************************************)
(* Session lifecycle, list submission, scoring ledger and tie-break        *)
(* protocol of babyname-duel (src/app.py), for one session.  Every HTTP    *)
(* handler is one atomic action: a handler that returns an error before    *)
(* its db.commit() leaves the database as it was.  The account operations  *)
(* (signup, login, password reset) act on the User, SessionToken and       *)
(* ResetToken rows and are explored in a specification of their own.  A    *)
(* third specification runs score requests of several threads at once: a   *)
(* request reads and checks, then writes and commits, then resolves the    *)
(* status in a transaction of its own.                                     *)
(***************************************************************************)
EXTENDS Integers, Sequences, FiniteSets, TLC

\* ------------------------------------------------------------------ bounds
\* the first name of a list may be given any score 1..MaxFreeRank; the names
\* after it are scored with their own position
MaxFreeRank == 2
\* tie-break votes offer ranks 0..K+RankSlack for K candidates
RankSlack == 1
\* at most MaxResetTokens reset tokens are issued
MaxResetTokens == 2
\* a login is offered to an account that holds fewer than MaxLogins session tokens
MaxLogins == 1
\* the clock runs from 0 to MaxTime hours
MaxTime == 3
\* at most MaxInflight score requests are in flight at once
MaxInflight == 2

\* ------------------------------------------------------- program constants
MinNames == 4
MaxNames == 100
DefaultMaxNames == 10
SchemaFloor == 5
\* hours a reset token stays valid
ResetTokenTTL == 1
MAX_SESSION_TOKENS_PER_USER == 10

\* ------------------------------------------------------------------- state
VARIABLES
    users,            \* registered accounts (User rows)
    session_exists,   \* the Session row exists
    max_names, name_focus, status, invites_locked, template_ready,
    tiebreak_active, tiebreak_names, final_winners,
    members,          \* Member rows: [uid, role]
    list_states,      \* OwnerListState rows: uid -> "draft" | "submitted"
    list_items,       \* ListItem rows: [owner_uid, name, self_rank]
    scores,           \* Score rows: [list_owner_uid, rater_uid, name, score_value]
    votes,            \* TieBreakVote rows: [rater_uid, name, rank]
    invites,          \* SessionInvite rows: e-mail -> number of its pending rows
    password_hash,    \* User.password_hash: e-mail -> hash
    session_tokens,   \* SessionToken rows: e-mail -> number of its rows
    reset_tokens,     \* ResetToken rows: [token, user, expires_at]
    reset_issued,     \* the number of reset tokens _uuid() has produced
    now,              \* now_utc(), in hours
    inflight          \* score requests between their checks and their last commit

sessionVars == <<max_names, name_focus, status, invites_locked, template_ready,
                 tiebreak_active, tiebreak_names, final_winners>>
rowVars == <<members, list_states, list_items, scores, votes, invites>>
authVars == <<password_hash, session_tokens, reset_tokens, reset_issued, now>>
vars == <<users, session_exists, sessionVars, rowVars, authVars, inflight>>

\* ------------------------------------------------------------------ inputs
Owner == "a"
Emails == {"a", "b", "c"}
InitialUsers == {"a", "b"}
\* the passwords a request carries; the accounts of InitialUsers signed up
\* with the first
DefaultPassword == "p1"
Passwords == {"p1", "p2"}

ListA == <<"ann", "bob", "cat", "dee">>
ListB == <<"ann", "eve", "fay", "gia">>

NoRanks == [n \in {} |-> 0]
SwapRanks == ("ann" :> 2) @@ ("eve" :> 1)
DupRanks == ("ann" :> 1) @@ ("bob" :> 1) @@ ("cat" :> 9) @@ ("dee" :> -1)
TwinRanks == ("bob" :> 1)

\* the request bodies a caller sends to POST /lists: names, selfRanks, finalize
\* and slotCount (0 stands for an absent slotCount)
ListBodies(email) ==
    CASE email = "a" -> { [names |-> <<>>, selfRanks |-> NoRanks],
                         [names |-> ListA, selfRanks |-> NoRanks],
                         [names |-> ListA, selfRanks |-> DupRanks],
                         [names |-> <<"ann", " ", "bob", "cat", "dee">>, selfRanks |-> NoRanks] }
      [] email = "b" -> { [names |-> ListB, selfRanks |-> SwapRanks],
                         [names |-> <<"ann", "eve", "fay">>, selfRanks |-> NoRanks],
                         [names |-> <<"ann", "Ann ", "fay", "gia">>, selfRanks |-> NoRanks] }
      [] OTHER       -> { [names |-> <<>>, selfRanks |-> NoRanks] }

\* the owner also sends template-only saves with a slotCount, and in a mix
\* session a slotCount of 4 with its four names; another member sends a
\* slotCount with its list
SlotInputs(email, names) ==
    IF email = Owner
    THEN (IF names = <<>> THEN {0, 6, 8}
          ELSE IF names = ListA THEN (IF name_focus = "mix" THEN {0, 4, 8} ELSE {0, 8})
          ELSE {0})
    ELSE IF names = ListB THEN {0, 8} ELSE {0}

\* a finalizing save the owner sends with two names on rank 1
FinalizeBodies(email) ==
    IF email = Owner
    THEN {[names |-> ListA, selfRanks |-> TwinRanks, finalize |-> TRUE, slotCount |-> 0]}
    ELSE {}

ListInputsOf(email) ==
    UNION { {[names |-> x.names, selfRanks |-> x.selfRanks, finalize |-> fz, slotCount |-> sl] :
                fz \in BOOLEAN, sl \in SlotInputs(email, x.names)} : x \in ListBodies(email) }
    \cup FinalizeBodies(email)

\* the requiredNames and nameFocus POST /sessions is sent
CreateInputs == { <<4, "mix">>, <<3, "mix">>, <<6, "mix">>, <<6, "girl">>, <<5, "girl">>,
                  <<5, "zzz">>, <<101, "boy">> }

\* ----------------------------------------------------------------- helpers
\* str.strip() on the names the inputs use
Strip(s) == CASE s = " " -> "" [] s = "Ann " -> "Ann" [] OTHER -> s
\* str.lower() on the names the inputs use
Lower(s) == CASE s = "Ann" -> "ann" [] OTHER -> s

Min(a, b) == IF a < b THEN a ELSE b
Max(a, b) == IF a > b THEN a ELSE b

\* sum of the field values of a set of rows, given as <<key, value>> pairs
RECURSIVE SumPairs(_)
SumPairs(S) ==
    IF S = {} THEN 0
    ELSE LET x == CHOOSE y \in S : TRUE IN x[2] + SumPairs(S \ {x})

_ensure_member(uid) == {m \in members : m.uid = uid}
IsMember(uid) == _ensure_member(uid) # {}
MemberUids == {m.uid : m \in members}

\* _ensure_owner_list_state: create a draft row on first touch
_ensure_owner_list_state(ls, uid) ==
    IF uid \in DOMAIN ls THEN ls ELSE ls @@ (uid :> "draft")

StateOf(ls, uid) == IF uid \in DOMAIN ls THEN ls[uid] ELSE "none"
ItemsOf(li, uid) == {r \in li : r.owner_uid = uid}
NamesOf(li, uid) == {r.name : r \in ItemsOf(li, uid)}
ScoredNames(sc, rater, owner) ==
    {r.name : r \in {x \in sc : x.rater_uid = rater /\ x.list_owner_uid = owner}}

\* ------------------------------------------------------- Status Resolver
\* the target status _recompute_session_status computes from the rows
TargetStatus(mem, ls, li, sc, required_names, locked) ==
    LET participant_uids == {m.uid : m \in {x \in mem : x.role \in {"owner", "voter", "participant"}}}
        all_submitted == \A uid \in participant_uids : StateOf(ls, uid) = "submitted"
        names_ready == \A uid \in participant_uids :
                           Cardinality(NamesOf(li, uid)) = required_names
        all_scored == \A rater \in participant_uids : \A owner_uid \in participant_uids :
                          owner_uid = rater \/
                          ~(Cardinality(ScoredNames(sc, rater, owner_uid))
                             < Cardinality(NamesOf(li, owner_uid)))
    IN  IF participant_uids = {} THEN "active"
        ELSE IF ~all_submitted THEN "active"
        ELSE IF ~names_ready THEN "active"
        ELSE IF all_scored /\ locked THEN "completed"
        ELSE "active"

\* a resolver that first reopens an archived session and resolves it on the
\* next call
RecomputeReopen(stored_status, mem, ls, li, sc, required_names, locked) ==
    IF stored_status = "archived" THEN "active"
    ELSE TargetStatus(mem, ls, li, sc, required_names, locked)

\* _recompute_session_status: the stored status after the resolver ran on a
\* session whose stored status was stored_status
_recompute_session_status(stored_status, mem, ls, li, sc, required_names, locked) ==
    LET target_status == TargetStatus(mem, ls, li, sc, required_names, locked)
    IN  IF stored_status # target_status THEN target_status ELSE stored_status

\* -------------------------------------------------------------------- Init
\* werkzeug's password hash and its check: a hash matches the password it
\* was made of and no other
generate_password_hash(password) == <<"pbkdf2", password>>
check_password_hash(pwhash, password) == pwhash = generate_password_hash(password)

Init ==
    /\ users = InitialUsers
    /\ session_exists = FALSE
    /\ max_names = DefaultMaxNames
    /\ name_focus = "mix"
    /\ status = "active"
    /\ invites_locked = FALSE
    /\ template_ready = FALSE
    /\ tiebreak_active = FALSE
    /\ tiebreak_names = {}
    /\ final_winners = {}
    /\ members = {}
    /\ list_states = [u \in {} |-> "draft"]
    /\ list_items = {}
    /\ scores = {}
    /\ votes = {}
    /\ invites = [e \in {} |-> 0]
    /\ password_hash = [u \in InitialUsers |-> generate_password_hash(DefaultPassword)]
    /\ session_tokens = [u \in InitialUsers |-> 0]
    /\ reset_tokens = {}
    /\ reset_issued = 0
    /\ now = 0
    /\ inflight = {}

\* ------------------------------------------------------ api_create_session
CreateSessionResult(required_names, focus) ==
    IF required_names < MinNames \/ required_names > MaxNames THEN "range"
    ELSE IF focus = "mix" /\ required_names % 4 # 0 THEN "mix-multiple"
    ELSE IF focus \in {"girl", "boy"} /\ required_names % 4 \notin {0, 2} THEN "even"
    ELSE "ok"

CreateSession(required_names, focus) ==
    /\ ~session_exists
    /\ Owner \in users
    /\ IF CreateSessionResult(required_names, focus) = "ok"
       THEN /\ session_exists' = TRUE
            /\ max_names' = required_names
            /\ name_focus' = IF focus \notin {"girl", "boy", "mix"} THEN "mix" ELSE focus
            /\ status' = "active"
            /\ template_ready' = FALSE
            /\ invites_locked' = FALSE
            /\ tiebreak_active' = FALSE
            /\ tiebreak_names' = {}
            /\ final_winners' = {}
            /\ members' = {[uid |-> Owner, role |-> "owner"]}
            /\ list_states' = (Owner :> "draft")
            /\ UNCHANGED <<authVars, inflight, users, list_items, scores, votes, invites>>
       ELSE UNCHANGED vars

\* --------------------------------------------------------- api_upsert_list
\* `x or 10` on a stored max_names
OrDefault(x) == IF x = 0 THEN DefaultMaxNames ELSE x

\* the loop over names: strip, skip blanks, case-insensitive uniqueness, rank
\* from selfRanks[name], selfRanks[trimmed] or the position; idx is 1-based,
\* so it is the code's idx + 1
RECURSIVE CleanNames(_, _, _, _, _, _, _)
CleanNames(names, self_ranks, finalize, maxn, idx, cleaned, seen_names) ==
    IF idx > Len(names) THEN [err |-> "ok", cleaned |-> cleaned]
    ELSE LET name == names[idx]
             trimmed == Strip(name)
             lowered == Lower(trimmed)
             rank == IF name \in DOMAIN self_ranks THEN self_ranks[name]
                     ELSE IF trimmed \in DOMAIN self_ranks THEN self_ranks[trimmed]
                     ELSE idx
         IN  IF trimmed = ""
             THEN CleanNames(names, self_ranks, finalize, maxn, idx + 1, cleaned, seen_names)
             ELSE IF lowered \in seen_names
             THEN [err |-> "names-unique", cleaned |-> <<>>]
             ELSE IF (rank < 1 \/ rank > maxn) /\ finalize
             THEN [err |-> "rank-range", cleaned |-> <<>>]
             ELSE CleanNames(names, self_ranks, finalize, maxn, idx + 1,
                             Append(cleaned, <<trimmed, rank>>),
                             seen_names \cup {lowered})

\* the finalize check of the cleaned list: exactly max_names names whose ranks
\* are 1..max_names
FinalizeCheck(cleaned, maxn) ==
    LET rank_set == {cleaned[i][2] : i \in DOMAIN cleaned}
    IN  IF Len(cleaned) # maxn THEN "exactly-n"
        ELSE IF Cardinality(rank_set) # maxn \/ rank_set # 1..maxn THEN "rank-cover"
        ELSE "ok"

\* a draft save clamps every rank into 0..max_names
ClampRanks(cleaned, maxn) ==
    [i \in DOMAIN cleaned |-> <<cleaned[i][1], Max(0, Min(cleaned[i][2], maxn))>>]

\* the owner's template check on slot_count
TemplateCheck(slot_count, focus) ==
    IF slot_count < MinNames \/ slot_count > MaxNames THEN "template-range"
    ELSE IF focus = "mix" /\ slot_count % 4 # 0 THEN "template-mix"
    ELSE IF focus \in {"girl", "boy"} /\ slot_count % 2 # 0 THEN "template-even"
    ELSE "ok"

\* a template step that every saving member takes
TemplateMaxAnyone(email, slot_count, current_max) ==
    IF slot_count # current_max THEN slot_count ELSE current_max

\* the session's max_names after the owner's template step
TemplateMax(email, slot_count, current_max) ==
    IF email = Owner /\ slot_count # current_max THEN slot_count ELSE current_max

\* a submitted check that lets every save through
AlreadySubmittedNever(ls, email) == FALSE

\* the caller's list is submitted: the save is refused, finalizing or not
AlreadySubmitted(ls, email) == StateOf(ls, email) = "submitted"

\* what api_upsert_list decides: the error it returns ("ok" when it commits),
\* the max_names it works with and the rows it writes
UpsertPlan(email, inp) ==
    LET finalize == inp.finalize
        current_max == OrDefault(max_names)
        slot_count == IF inp.slotCount <= 0 THEN current_max ELSE inp.slotCount
        tmpl == IF email = Owner THEN TemplateCheck(slot_count, name_focus) ELSE "ok"
        maxn == OrDefault(TemplateMax(email, slot_count, current_max))
        member == _ensure_member(email)
        c == CleanNames(inp.names, inp.selfRanks, finalize, maxn, 1, <<>>, {})
        fin == IF finalize THEN FinalizeCheck(c.cleaned, maxn) ELSE "ok"
        cleaned == IF finalize THEN c.cleaned ELSE ClampRanks(c.cleaned, maxn)
        err == IF ~session_exists THEN "not-found"
               ELSE IF status = "archived" THEN "archived"
               ELSE IF status = "completed" THEN "completed"
               ELSE IF tmpl # "ok" THEN tmpl
               ELSE IF member = {} \/ (\A m \in member : m.role \notin {"owner", "voter", "participant"})
                    THEN "forbidden"
               ELSE IF c.err # "ok" THEN c.err
               ELSE IF fin # "ok" THEN fin
               ELSE IF AlreadySubmitted(list_states, email) THEN "already-submitted"
               ELSE "ok"
    IN  [err |-> err, maxn |-> maxn, cleaned |-> IF err = "ok" THEN cleaned ELSE <<>>]

UpsertListResult(email, inp) == UpsertPlan(email, inp).err

\* the writes of an accepted list save
UpsertListCommit(email, inp) ==
    LET plan == UpsertPlan(email, inp)
        rows == {[owner_uid |-> email, name |-> plan.cleaned[i][1], self_rank |-> plan.cleaned[i][2]] :
                    i \in DOMAIN plan.cleaned}
        li == {r \in list_items : r.owner_uid # email} \cup rows
        ls == [_ensure_owner_list_state(list_states, email) EXCEPT
                  ![email] = IF inp.finalize THEN "submitted" ELSE "draft"]
    IN  /\ list_items' = li
        /\ list_states' = ls
        /\ max_names' = plan.maxn
        /\ template_ready' = IF email = Owner THEN TRUE ELSE template_ready
        /\ status' = _recompute_session_status(status, members, ls, li, scores, OrDefault(plan.maxn),
                                               invites_locked)
        /\ UNCHANGED <<authVars, inflight, users, session_exists, name_focus, invites_locked, tiebreak_active,
                       tiebreak_names, final_winners, members, scores, votes, invites>>

\* a list save that keeps the owner's template step when a later check of the
\* save fails
UpsertListTemplateKept(email, inp) ==
    LET plan == UpsertPlan(email, inp)
    IN  IF plan.err = "ok" THEN UpsertListCommit(email, inp)
        ELSE IF email = Owner /\ plan.err \in {"forbidden", "names-unique", "rank-range",
                                               "exactly-n", "rank-cover", "already-submitted"}
        THEN /\ max_names' = plan.maxn
             /\ template_ready' = TRUE
             /\ UNCHANGED <<authVars, inflight, users, session_exists, name_focus, status, invites_locked,
                            tiebreak_active, tiebreak_names, final_winners, rowVars>>
        ELSE UNCHANGED vars

UpsertList(email, inp) ==
    IF UpsertListResult(email, inp) = "ok" THEN UpsertListCommit(email, inp)
    ELSE UNCHANGED vars

\* ------------------------------------------------------------- api_signup
\* _prune_session_tokens: the number of SessionToken rows an account keeps
_prune_session_tokens(count) ==
    IF count <= MAX_SESSION_TOKENS_PER_USER THEN count ELSE MAX_SESSION_TOKENS_PER_USER

\* _issue_session_token: one more SessionToken row for email, then the pruning
_issue_session_token(tokens, email) ==
    LET held == IF email \in DOMAIN tokens THEN tokens[email] ELSE 0
    IN  [u \in DOMAIN tokens \cup {email} |->
            IF u = email THEN _prune_session_tokens(held + 1) ELSE tokens[u]]

SignupResult(email, password) ==
    IF email = "" \/ password = "" THEN "missing-fields"
    ELSE IF email \in users THEN "email-exists"
    ELSE "ok"

Signup(email, password) ==
    IF SignupResult(email, password) = "ok"
    THEN /\ users' = users \cup {email}
         /\ password_hash' = [u \in DOMAIN password_hash \cup {email} |->
                                 IF u = email THEN generate_password_hash(password)
                                 ELSE password_hash[u]]
         /\ session_tokens' = _issue_session_token(session_tokens, email)
         /\ UNCHANGED <<inflight, session_exists, sessionVars, rowVars, reset_tokens, reset_issued, now>>
    ELSE UNCHANGED vars

\* --------------------------------------------------------------- api_login
LoginResult(email, password) ==
    IF email \notin users \/ ~check_password_hash(password_hash[email], password)
    THEN "invalid-credentials"
    ELSE "ok"

Login(email, password) ==
    IF LoginResult(email, password) = "ok"
    THEN /\ session_tokens[email] < MaxLogins
         /\ session_tokens' = _issue_session_token(session_tokens, email)
         /\ UNCHANGED <<inflight, users, session_exists, sessionVars, rowVars, password_hash,
                        reset_tokens, reset_issued, now>>
    ELSE UNCHANGED vars

\* ---------------------------------------------- api_reset_password_request
ResetPasswordRequestResult(email) ==
    IF email = "" THEN "email-required"
    ELSE IF email \notin users THEN "unknown-email"
    ELSE "ok"

\* the token is the next value of _uuid() and expires ResetTokenTTL hours on
ResetPasswordRequest(email) ==
    IF ResetPasswordRequestResult(email) = "ok"
    THEN /\ reset_issued < MaxResetTokens
         /\ reset_issued' = reset_issued + 1
         /\ reset_tokens' = reset_tokens \cup
                {[token |-> reset_issued + 1, user |-> email, expires_at |-> now + ResetTokenTTL]}
         /\ UNCHANGED <<inflight, users, session_exists, sessionVars, rowVars, password_hash,
                        session_tokens, now>>
    ELSE UNCHANGED vars

\* ------------------------------------------------------ api_reset_password
\* the ResetToken rows with the token of the request (0 is the empty token)
ResetRows(token) == {r \in reset_tokens : r.token = token}

\* a reset that leaves the ResetToken row in place
KeepReset(tokens, reset) == tokens

\* db.delete(reset)
DeleteReset(tokens, reset) == tokens \ {reset}

ResetPasswordResult(token, new_password) ==
    IF token = 0 \/ new_password = "" THEN "token-and-password-required"
    ELSE IF ResetRows(token) = {} THEN "invalid-or-expired"
    ELSE IF (CHOOSE r \in ResetRows(token) : TRUE).expires_at < now THEN "invalid-or-expired"
    ELSE "ok"

ResetPassword(token, new_password) ==
    IF ResetPasswordResult(token, new_password) = "ok"
    THEN LET reset == CHOOSE r \in ResetRows(token) : TRUE
         IN  /\ password_hash' = [password_hash EXCEPT ![reset.user] =
                                      generate_password_hash(new_password)]
             /\ reset_tokens' = DeleteReset(reset_tokens, reset)
             /\ session_tokens' = [session_tokens EXCEPT ![reset.user] = 0]
             /\ UNCHANGED <<inflight, users, session_exists, sessionVars, rowVars, reset_issued, now>>
    ELSE UNCHANGED vars

\* an hour passes
Tick ==
    /\ now < MaxTime
    /\ now' = now + 1
    /\ UNCHANGED <<inflight, users, session_exists, sessionVars, rowVars, password_hash,
                   session_tokens, reset_tokens, reset_issued>>

\* ------------------------------------- api_add_participants, _invite_participants
\* the SessionInvite rows left after the rows of email are deleted
DeleteInvites(inv, email) == [e \in DOMAIN inv \ {email} |-> inv[e]]

\* an invite that adds a row for an e-mail that has a pending row
AddInviteRow(inv, invite_email) ==
    IF invite_email \in DOMAIN inv THEN [inv EXCEPT ![invite_email] = @ + 1]
    ELSE inv @@ (invite_email :> 1)

\* the pending invite of an unregistered e-mail: the row it has is kept, and
\* a row is added when it has none
PendingInvite(inv, invite_email) ==
    IF invite_email \in DOMAIN inv THEN inv ELSE inv @@ (invite_email :> 1)

\* an add-participants check that does not look at the template
TemplateMissingNever(ready) == FALSE

\* the owner has not saved the list template yet
TemplateMissing(ready) == ~ready

\* _session_member_role of a requested role
_session_member_role(raw_role) ==
    IF raw_role = "owner" THEN "owner" ELSE "participant"

\* the request's participants become cleaned_specs, or the request is refused
RECURSIVE CleanSpecs(_, _, _)
CleanSpecs(participants, idx, seen) ==
    IF idx > Len(participants) THEN "ok"
    ELSE LET invite_email == participants[idx].email
         IN  IF invite_email = "" \/ invite_email = Owner
             THEN CleanSpecs(participants, idx + 1, seen)
             ELSE IF invite_email \in seen THEN "duplicate-invite"
             ELSE CleanSpecs(participants, idx + 1, seen \cup {invite_email})

AddParticipantsResult(email, participants) ==
    IF ~session_exists THEN "not-found"
    ELSE IF email # Owner THEN "forbidden"
    ELSE IF status = "archived" THEN "archived"
    ELSE IF TemplateMissing(template_ready) THEN "template-not-ready"
    ELSE CleanSpecs(participants, 1, {})

\* _invite_participants: the rows after the specs from idx on were handled
RECURSIVE InviteFrom(_, _, _)
InviteFrom(participants, idx, rows) ==
    IF idx > Len(participants) THEN rows
    ELSE LET invite_email == participants[idx].email
             role == _session_member_role(participants[idx].role)
             existing_member == {m \in rows.members : m.uid = invite_email}
             user_exists == invite_email \in users
             next ==
                 IF invite_email = "" \/ invite_email = Owner THEN rows
                 ELSE IF role = "owner" THEN rows
                 ELSE IF existing_member # {} THEN rows
                 ELSE IF user_exists
                 THEN [members |-> rows.members \cup {[uid |-> invite_email, role |-> "participant"]},
                       list_states |-> _ensure_owner_list_state(rows.list_states, invite_email),
                       invites |-> DeleteInvites(rows.invites, invite_email)]
                 ELSE [rows EXCEPT !.invites = PendingInvite(rows.invites, invite_email)]
         IN  InviteFrom(participants, idx + 1, next)

_invite_participants(participants) ==
    InviteFrom(participants, 1,
               [members |-> members, list_states |-> list_states, invites |-> invites])

AddParticipants(email, participants) ==
    IF AddParticipantsResult(email, participants) = "ok"
    THEN LET rows == _invite_participants(participants)
         IN  /\ members' = rows.members
             /\ list_states' = rows.list_states
             /\ invites' = rows.invites
             /\ UNCHANGED <<authVars, inflight, users, session_exists, sessionVars, list_items, scores, votes>>
    ELSE UNCHANGED vars

\* -------------------------------------------------------- api_join_session
\* invite_email names the invite row whose token the request carries
JoinSessionResult(email, invite_email) ==
    IF invite_email \notin DOMAIN invites THEN "invalid-invite"
    ELSE IF ~session_exists THEN "not-found"
    ELSE IF status = "archived" THEN "archived"
    ELSE IF invite_email # email THEN "invite-mismatch"
    ELSE IF invites_locked /\ ~IsMember(email) THEN "invites-locked"
    ELSE "ok"

JoinSession(email, invite_email) ==
    IF JoinSessionResult(email, invite_email) = "ok"
    THEN /\ members' = IF IsMember(email) THEN members
                       ELSE members \cup {[uid |-> email, role |-> "participant"]}
         /\ list_states' = _ensure_owner_list_state(list_states, email)
         /\ invites' = DeleteInvites(invites, email)
         /\ UNCHANGED <<authVars, inflight, users, session_exists, sessionVars, list_items, scores, votes>>
    ELSE UNCHANGED vars

\* -------------------------------------------------- api_remove_participant
\* removal checks that accept the owner as the target
RemoveParticipantResultAnyTarget(email, target_email) ==
    IF ~session_exists THEN "not-found"
    ELSE IF email # Owner THEN "forbidden"
    ELSE "ok"

RemoveParticipantResult(email, target_email) ==
    IF ~session_exists THEN "not-found"
    ELSE IF email # Owner THEN "forbidden"
    ELSE IF target_email = Owner THEN "cannot-remove-owner"
    ELSE "ok"

\* a removal that deletes only the scores given to the removed member's list
RemoveScoresOfList(sc, target_email) ==
    {r \in sc : r.list_owner_uid # target_email}

\* a removal that deletes only the scores the removed member gave
RemoveScoresByRater(sc, target_email) ==
    {r \in sc : r.rater_uid # target_email}

\* the Score rows left after the removal of target_email
RemoveScores(sc, target_email) ==
    {r \in sc : ~(r.list_owner_uid = target_email \/ r.rater_uid = target_email)}

RemoveParticipant(email, target_email) ==
    IF RemoveParticipantResult(email, target_email) # "ok" THEN UNCHANGED vars
    ELSE IF ~IsMember(target_email)
    THEN /\ invites' = DeleteInvites(invites, target_email)
         /\ UNCHANGED <<authVars, inflight, users, session_exists, sessionVars, members, list_states, list_items,
                        scores, votes>>
    ELSE LET sc == RemoveScores(scores, target_email)
             li == {r \in list_items : r.owner_uid # target_email}
             ls == [u \in DOMAIN list_states \ {target_email} |-> list_states[u]]
             mem == {m \in members : m.uid # target_email}
         IN  /\ scores' = sc
             /\ list_items' = li
             /\ list_states' = ls
             /\ invites' = DeleteInvites(invites, target_email)
             /\ members' = mem
             /\ status' = _recompute_session_status(status, mem, ls, li, sc, OrDefault(max_names),
                                                    invites_locked)
             /\ UNCHANGED <<authVars, inflight, users, session_exists, max_names, name_focus, invites_locked,
                            template_ready, tiebreak_active, tiebreak_names, final_winners, votes>>

\* -------------------------------------------------------- api_lock_invites
LockInvitesResult(email) ==
    IF ~session_exists THEN "not-found"
    ELSE IF email # Owner THEN "forbidden"
    ELSE "ok"

\* a lock that leaves the stored status as it is
LockInvitesNoRecompute(email) ==
    IF LockInvitesResult(email) = "ok" /\ ~invites_locked
    THEN /\ invites_locked' = TRUE
         /\ UNCHANGED <<authVars, inflight, users, session_exists, max_names, name_focus, status, template_ready,
                        tiebreak_active, tiebreak_names, final_winners, rowVars>>
    ELSE UNCHANGED vars

LockInvites(email) ==
    IF LockInvitesResult(email) = "ok" /\ ~invites_locked
    THEN /\ invites_locked' = TRUE
         /\ status' = _recompute_session_status(status, members, list_states, list_items, scores,
                                                OrDefault(max_names), TRUE)
         /\ UNCHANGED <<authVars, inflight, users, session_exists, max_names, name_focus, template_ready,
                        tiebreak_active, tiebreak_names, final_winners, rowVars>>
    ELSE UNCHANGED vars

\* -------------------------------------------------------- api_submit_score
\* the list whose names a caller is offered to score, per list owner
ListOf(owner) == IF owner = "a" THEN ListA ELSE ListB

\* the first name of a list is offered the scores 1..MaxFreeRank and two
\* out-of-range scores, every other name its own position
ScoreValues(i) ==
    IF i = 1 THEN {0, DefaultMaxNames + 1} \cup 1..MaxFreeRank ELSE {i}

\* the raters who score a list from its first name down: such a rater sends a
\* score for a name only when the names before it have its score
InOrderRaters == {"a"}

ScorePositions(rater, owner) ==
    IF rater \in InOrderRaters
    THEN {i \in 1..MinNames :
            \A j \in 1..(i - 1) : ListOf(owner)[j] \in ScoredNames(scores, rater, owner)}
    ELSE IF rater \in InitialUsers THEN 1..MinNames
    ELSE {1}

\* the request bodies a rater sends to POST /scores
ScoreInputsOf(rater) ==
    UNION { UNION { {[listOwnerUid |-> owner, name |-> ListOf(owner)[i], scoreValue |-> v] :
                       v \in ScoreValues(i)} : i \in ScorePositions(rater, owner) } :
            owner \in IF rater \in InitialUsers THEN InitialUsers ELSE {Owner} }
    \cup {[listOwnerUid |-> owner, name |-> "zed", scoreValue |-> 1] :
             owner \in InitialUsers \ {rater}}

\* the rater's rows for one list
PairScores(sc, owner, rater) ==
    {r \in sc : r.list_owner_uid = owner /\ r.rater_uid = rater}

\* a uniqueness check that looks at the row of the name itself
RankTakenSameName(existing_scores, name, score_value) ==
    \E r \in existing_scores : r.score_value = score_value /\ r.name = name

\* a self-scoring check that lets every rater through
OwnListNever(email, list_owner_uid) == FALSE

\* the self-scoring check
OwnList(email, list_owner_uid) == email = list_owner_uid

\* the rank-uniqueness check: some other name of the pair already holds the value
RankTaken(existing_scores, name, score_value) ==
    \E r \in existing_scores : r.score_value = score_value /\ r.name # name

SubmitScoreResult(email, inp) ==
    LET maxn == OrDefault(max_names)
        existing_scores == PairScores(scores, inp.listOwnerUid, email)
    IN  IF ~session_exists THEN "not-found"
        ELSE IF inp.scoreValue < 1 \/ inp.scoreValue > maxn THEN "score-range"
        ELSE IF status = "archived" THEN "archived"
        ELSE IF status = "completed" THEN "completed"
        ELSE IF tiebreak_active THEN "tiebreak-active"
        ELSE IF StateOf(list_states, inp.listOwnerUid) # "submitted" THEN "owner-not-submitted"
        ELSE IF ~IsMember(email) THEN "forbidden"
        ELSE IF OwnList(email, inp.listOwnerUid) THEN "own-list"
        ELSE IF StateOf(list_states, email) # "submitted" THEN "rater-not-submitted"
        ELSE IF inp.name \notin NamesOf(list_items, inp.listOwnerUid) THEN "name-not-in-list"
        ELSE IF RankTaken(existing_scores, inp.name, inp.scoreValue) THEN "rank-used"
        ELSE "ok"

\* a write that adds a row and keeps the row the key already has
InsertScore(sc, owner, rater, name, score_value) ==
    sc \cup {[list_owner_uid |-> owner, rater_uid |-> rater, name |-> name,
              score_value |-> score_value]}

\* the upsert of the Score row by its key
UpsertScore(sc, owner, rater, name, score_value) ==
    {r \in sc : ~(r.list_owner_uid = owner /\ r.rater_uid = rater /\ r.name = name)}
    \cup {[list_owner_uid |-> owner, rater_uid |-> rater, name |-> name,
           score_value |-> score_value]}

SubmitScore(email, inp) ==
    IF SubmitScoreResult(email, inp) = "ok"
    THEN LET sc == UpsertScore(scores, inp.listOwnerUid, email, inp.name, inp.scoreValue)
         IN  /\ scores' = sc
             /\ status' = _recompute_session_status(status, members, list_states, list_items, sc,
                                                    OrDefault(max_names), invites_locked)
             /\ UNCHANGED <<authVars, inflight, users, session_exists, max_names, name_focus, invites_locked,
                            template_ready, tiebreak_active, tiebreak_names, final_winners,
                            members, list_states, list_items, votes, invites>>
    ELSE UNCHANGED vars

\* ------------------------------------- api_submit_score of several threads
\* the request has passed its checks on the rows it read: it holds the Score
\* row of its key if it read one, and the Session object as it was loaded
ScoreCheck(email, inp) ==
    /\ Cardinality(inflight) < MaxInflight
    /\ \A r \in inflight : r.email # email \/ r.inp # inp
    /\ SubmitScoreResult(email, inp) = "ok"
    /\ inflight' = inflight \cup
           {[email |-> email, inp |-> inp, phase |-> "checked",
             existing |-> \E r \in PairScores(scores, inp.listOwnerUid, email) : r.name = inp.name,
             seen_status |-> status, seen_locked |-> invites_locked, seen_max |-> max_names]}
    /\ UNCHANGED <<authVars, users, session_exists, sessionVars, rowVars>>

\* the flush of the request: an UPDATE of the row it read fails when the row
\* is gone, an INSERT fails when a row has its primary key
FlushFails(sc, req) ==
    LET stored == \E r \in PairScores(sc, req.inp.listOwnerUid, req.email) : r.name = req.inp.name
    IN  IF req.existing THEN ~stored ELSE stored

\* the request writes its row and commits, or fails at the flush, rolls back
\* and answers 500
ScoreCommit(req) ==
    /\ req \in inflight
    /\ req.phase = "checked"
    /\ IF FlushFails(scores, req)
       THEN /\ inflight' = inflight \ {req}
            /\ UNCHANGED scores
       ELSE /\ scores' = UpsertScore(scores, req.inp.listOwnerUid, req.email, req.inp.name,
                                     req.inp.scoreValue)
            /\ inflight' = (inflight \ {req}) \cup {[req EXCEPT !.phase = "committed"]}
    /\ UNCHANGED <<authVars, users, session_exists, sessionVars, members, list_states, list_items,
                   votes, invites>>

\* the resolver of the request, after its commit: it reads the rows afresh,
\* but the Session object is the one the request loaded (the session keeps
\* loaded objects over a commit), and the status is written when the target
\* differs from the status of that object
ScoreRecompute(req) ==
    /\ req \in inflight
    /\ req.phase = "committed"
    /\ inflight' = inflight \ {req}
    /\ LET target_status == TargetStatus(members, list_states, list_items, scores,
                                         OrDefault(req.seen_max), req.seen_locked)
       IN  status' = IF session_exists /\ req.seen_status # target_status
                     THEN target_status ELSE status
    /\ UNCHANGED <<authVars, users, session_exists, max_names, name_focus, invites_locked,
                   template_ready, tiebreak_active, tiebreak_names, final_winners, rowVars>>

\* ---------------------------------------- _score_totals, _first_place_tie_names
\* totals that keep the highest score of a name instead of the sum
ScoreTotalsHighest(sc) ==
    [n \in {r.name : r \in sc} |->
        CHOOSE v \in {r.score_value : r \in {x \in sc : x.name = n}} :
            \A r \in {x \in sc : x.name = n} : r.score_value <= v]

\* the names that have a Score row, each with the sum of its score values over
\* every list owner and rater
_score_totals(sc) ==
    [n \in {r.name : r \in sc} |->
        SumPairs({<<r, r.score_value>> : r \in {x \in sc : x.name = n}})]

_first_place_tie_names(totals) ==
    IF DOMAIN totals = {} THEN {}
    ELSE LET lowest == CHOOSE v \in {totals[n] : n \in DOMAIN totals} :
                           \A n \in DOMAIN totals : v <= totals[n]
         IN  {n \in DOMAIN totals : totals[n] = lowest}

\* ------------------------------------------------------ api_tiebreak_start
TiebreakStartResult(email) ==
    IF ~session_exists THEN "not-found"
    ELSE IF email # Owner THEN "forbidden"
    ELSE IF status = "completed" THEN "completed"
    ELSE IF ~invites_locked THEN "invites-open"
    ELSE IF tiebreak_active THEN "already-active"
    ELSE IF Cardinality(_first_place_tie_names(_score_totals(scores))) < 2 THEN "no-tie"
    ELSE "ok"

\* a start that keeps the votes of an earlier tie-break
KeepVotes(v) == v

\* the TieBreakVote rows left when a tie-break starts: all are deleted
VotesAtStart(v) == {}

TiebreakStart(email) ==
    IF TiebreakStartResult(email) = "ok"
    THEN /\ tiebreak_active' = TRUE
         /\ tiebreak_names' = _first_place_tie_names(_score_totals(scores))
         /\ final_winners' = {}
         /\ votes' = VotesAtStart(votes)
         /\ UNCHANGED <<authVars, inflight, users, session_exists, max_names, name_focus, status, invites_locked,
                        template_ready, members, list_states, list_items, scores, invites>>
    ELSE UNCHANGED vars

\* ------------------------------------------------------- api_tiebreak_vote
\* the order in which the rankings below list the names
NameOrder == <<"ann", "bob", "cat", "dee", "eve", "fay", "gia">>
PosOf(n) == CHOOSE i \in DOMAIN NameOrder : NameOrder[i] = n
RankAmong(S, n) == Cardinality({m \in S : PosOf(m) <= PosOf(n)})

\* the ranks objects a caller sends to POST /tiebreak/votes: the candidates in
\* order, in reverse order, all ranked 1, one rank out of range, one candidate
\* left out, and a ranking that also names a name that is no candidate
VoteInputsOf(email) ==
    LET names == tiebreak_names
        K == Cardinality(names)
        inorder == [n \in names |-> RankAmong(names, n)]
        reverse == [n \in names |-> K + 1 - RankAmong(names, n)]
        allone == [n \in names |-> 1]
        high == [n \in names |-> IF RankAmong(names, n) = 1 THEN K + RankSlack ELSE RankAmong(names, n)]
        partial == {[n \in names \ {m} |-> RankAmong(names \ {m}, n)] : m \in names}
        extra == inorder @@ ("zed" :> 1)
    IN  CASE email = "a" -> {inorder, reverse, allone, high, extra} \cup partial
          [] email = "b" -> {reverse, allone}
          [] OTHER       -> {allone}

TiebreakVoteResult(email, ranks) ==
    LET names == tiebreak_names
        parsed == [n \in names \cap DOMAIN ranks |-> ranks[n]]
        values == {parsed[n] : n \in DOMAIN parsed}
        limit == Cardinality(names)
    IN  IF ~session_exists THEN "not-found"
        ELSE IF ~tiebreak_active THEN "not-active"
        ELSE IF ~IsMember(email) THEN "forbidden"
        ELSE IF names = {} THEN "ranks-required"
        ELSE IF Cardinality(DOMAIN parsed) # Cardinality(names) THEN "rank-every-name"
        ELSE IF \E v \in values : v < 1 \/ v > limit THEN "rank-range"
        ELSE IF Cardinality(values) # Cardinality(DOMAIN parsed) THEN "rank-once"
        ELSE "ok"

\* a vote that adds its rows to the rows the rater has
AddVotes(vt, email, ranks) ==
    vt \cup {[rater_uid |-> email, name |-> n, rank |-> ranks[n]] : n \in tiebreak_names \cap DOMAIN ranks}

\* the rater's rows are deleted and one row per candidate is added
ReplaceVotes(vt, email, ranks) ==
    {r \in vt : r.rater_uid # email}
    \cup {[rater_uid |-> email, name |-> n, rank |-> ranks[n]] : n \in tiebreak_names \cap DOMAIN ranks}

TiebreakVote(email, ranks) ==
    IF TiebreakVoteResult(email, ranks) = "ok"
    THEN /\ votes' = ReplaceVotes(votes, email, ranks)
         /\ UNCHANGED <<authVars, inflight, users, session_exists, sessionVars, members, list_states, list_items,
                        scores, invites>>
    ELSE UNCHANGED vars

\* ------------------------------------------------------ api_tiebreak_close
\* close checks that take an inactive tie-break for an active one
TiebreakCloseResultAlways(email) ==
    IF ~session_exists THEN "not-found"
    ELSE IF email # Owner THEN "forbidden"
    ELSE "ok"

TiebreakCloseResult(email) ==
    IF ~session_exists THEN "not-found"
    ELSE IF email # Owner THEN "forbidden"
    ELSE IF ~tiebreak_active THEN "already-closed"
    ELSE "ok"

\* the summed rank of every candidate over the cast votes
VoteTotals(names, vt) ==
    [n \in names |-> SumPairs({<<r, r.rank>> : r \in {x \in vt : x.name = n}})]

\* a close that keeps every candidate whatever the votes are
CloseWinnersAll(names, vt) == names

\* a close that has no winner when no vote was cast
CloseWinnersOfVotes(names, vt) ==
    IF vt = {} THEN {} ELSE _first_place_tie_names(VoteTotals(names, vt))

CloseWinners(names, vt) ==
    LET tied == IF vt = {} THEN names ELSE _first_place_tie_names(VoteTotals(names, vt))
    IN  IF tied # {} THEN tied ELSE names

\* the winners the response of close carries
TiebreakCloseWinners(email) ==
    IF TiebreakCloseResult(email) = "already-closed" THEN final_winners
    ELSE IF TiebreakCloseResult(email) = "ok" THEN CloseWinners(tiebreak_names, votes)
    ELSE {}

TiebreakClose(email) ==
    IF TiebreakCloseResult(email) = "ok"
    THEN /\ final_winners' = CloseWinners(tiebreak_names, votes)
         /\ tiebreak_active' = FALSE
         /\ tiebreak_names' = {}
         /\ status' = "completed"
         /\ UNCHANGED <<authVars, inflight, users, session_exists, max_names, name_focus, invites_locked,
                        template_ready, rowVars>>
    ELSE UNCHANGED vars

\* ----------------------------------------------------- api_archive_session
IsOwnerMember(email) == \E m \in _ensure_member(email) : m.role = "owner"

ArchiveSessionResult(email) ==
    IF ~session_exists THEN "not-found"
    ELSE IF ~IsOwnerMember(email) THEN "forbidden"
    ELSE "ok"

ArchiveSession(email) ==
    IF ArchiveSessionResult(email) = "ok"
    THEN /\ status' = "archived"
         /\ UNCHANGED <<authVars, inflight, users, session_exists, max_names, name_focus, invites_locked,
                        template_ready, tiebreak_active, tiebreak_names, final_winners, rowVars>>
    ELSE UNCHANGED vars

\* ------------------------------------------------------ api_delete_session
DeleteSessionResult(email) ==
    IF ~session_exists THEN "not-found"
    ELSE IF ~IsOwnerMember(email) THEN "forbidden"
    ELSE "ok"

DeleteSession(email) ==
    IF DeleteSessionResult(email) = "ok"
    THEN /\ session_exists' = FALSE
         /\ max_names' = DefaultMaxNames
         /\ name_focus' = "mix"
         /\ status' = "active"
         /\ invites_locked' = FALSE
         /\ template_ready' = FALSE
         /\ tiebreak_active' = FALSE
         /\ tiebreak_names' = {}
         /\ final_winners' = {}
         /\ members' = {}
         /\ list_states' = [u \in {} |-> "draft"]
         /\ list_items' = {}
         /\ scores' = {}
         /\ votes' = {}
         /\ invites' = [e \in {} |-> 0]
         /\ UNCHANGED <<authVars, inflight, users>>
    ELSE UNCHANGED vars

\* -------------------------------------- ensure_schema, seed_owner_states
\* the process starts again on the stored rows
seed_owner_states(mem, ls) ==
    [u \in DOMAIN ls \cup {m.uid : m \in {x \in mem : x.role \in {"owner", "voter", "participant"}}} |->
        IF u \in DOMAIN ls THEN ls[u] ELSE "draft"]

ensure_schema(stored_max) ==
    IF stored_max < SchemaFloor THEN DefaultMaxNames ELSE stored_max

Restart ==
    /\ session_exists
    /\ max_names' = ensure_schema(max_names)
    /\ list_states' = seed_owner_states(members, list_states)
    /\ UNCHANGED <<authVars, inflight, users, session_exists, name_focus, status, invites_locked, template_ready,
                   tiebreak_active, tiebreak_names, final_winners, members, list_items, scores,
                   votes, invites>>

\* the participants lists POST /participants is sent
ParticipantInputs(email) ==
    IF email = Owner
    THEN { <<[email |-> "b", role |-> "participant"]>>,
           <<[email |-> "c", role |-> "voter"]>>,
           <<[email |-> "c", role |-> "owner"]>>,
           <<[email |-> "a", role |-> "participant"], [email |-> "b", role |-> "owner"]>>,
           <<[email |-> "b", role |-> "participant"], [email |-> "c", role |-> "participant"]>>,
           <<[email |-> "c", role |-> "participant"], [email |-> "c", role |-> "participant"]>> }
    ELSE { <<[email |-> "c", role |-> "participant"]>> }

\* the callers of the owner-only operations: the owner and one other account
OwnerOpCallers == users \cap {"a", "b"}
\* caller and target of DELETE /participants
RemoveInputs == {<<"a", "b">>, <<"a", "c">>, <<"a", "a">>, <<"b", "c">>}
\* caller and invite of POST /sessions/join
JoinInputs == {<<"c", "c">>, <<"b", "c">>, <<"b", "b">>}

\* the session operations
Core ==
    \/ \E ci \in CreateInputs : CreateSession(ci[1], ci[2])
    \/ \E e \in users : \E inp \in ListInputsOf(e) : UpsertList(e, inp)
    \/ \E e \in Emails : Signup(e, DefaultPassword)
    \/ \E e \in OwnerOpCallers : \E ps \in ParticipantInputs(e) : AddParticipants(e, ps)
    \/ \E j \in JoinInputs : j[1] \in users /\ JoinSession(j[1], j[2])
    \/ \E r \in RemoveInputs : r[1] \in users /\ RemoveParticipant(r[1], r[2])
    \/ \E e \in OwnerOpCallers : LockInvites(e)
    \/ \E e \in users : \E inp \in ScoreInputsOf(e) : SubmitScore(e, inp)
    \/ \E e \in OwnerOpCallers : TiebreakStart(e)
    \/ \E e \in users : \E ranks \in VoteInputsOf(e) : TiebreakVote(e, ranks)
    \/ \E e \in OwnerOpCallers : TiebreakClose(e)

\* every request handler
Handlers ==
    \/ Core
    \/ \E e \in OwnerOpCallers : ArchiveSession(e)
    \/ \E e \in OwnerOpCallers : DeleteSession(e)

\* every request handler, and the start of the process
Next ==
    \/ Handlers
    \/ Restart

Spec == Init /\ [][Next]_vars

\* the request handlers alone, in one run of the process
SpecHandlers == Init /\ [][Handlers]_vars

\* the tokens and passwords the account requests carry: 0 is the empty
\* token, MaxResetTokens + 1 a token that is never issued
ResetTokenInputs == 0 .. MaxResetTokens + 1
PasswordInputs == Passwords \cup {""}
AccountEmails == Emails \cup {""}

\* the account operations, and the clock
Accounts ==
    \/ \E e \in AccountEmails : \E pw \in PasswordInputs : Signup(e, pw)
    \/ \E e \in Emails : \E pw \in Passwords : Login(e, pw)
    \/ \E e \in AccountEmails : ResetPasswordRequest(e)
    \/ \E t \in ResetTokenInputs : \E pw \in PasswordInputs : ResetPassword(t, pw)
    \/ Tick

SpecAccounts == Init /\ [][Accounts]_vars

\* the requests of the runs with score requests in flight: the owner creates
\* a session of four names and adds b, both finalize their lists, the owner
\* locks the invites and starts a tie-break, and both score
RaceListInputs(email) == {inp \in ListInputsOf(email) : inp.finalize /\ inp.slotCount = 0}

\* both raters score a list from its first name down
RaceScoreInputs(email) ==
    {inp \in ScoreInputsOf(email) :
        \A i \in 1 .. MinNames :
            ListOf(inp.listOwnerUid)[i] = inp.name =>
                \A j \in 1 .. (i - 1) :
                    ListOf(inp.listOwnerUid)[j] \in ScoredNames(scores, email, inp.listOwnerUid)}

Race ==
    \/ CreateSession(MinNames, "mix")
    \/ \E e \in InitialUsers : \E inp \in RaceListInputs(e) : UpsertList(e, inp)
    \/ AddParticipants(Owner, <<[email |-> "b", role |-> "participant"]>>)
    \/ LockInvites(Owner)
    \/ TiebreakStart(Owner)
    \/ \E e \in InitialUsers : \E inp \in RaceScoreInputs(e) : ScoreCheck(e, inp)
    \/ \E req \in inflight : ScoreCommit(req)
    \/ \E req \in inflight : ScoreRecompute(req)

SpecRace == Init /\ [][Race]_vars

\* ================================================================== claims
\* every ordered pair of distinct members is fully scored
AllPairsScored ==
    \A rater \in MemberUids : \A owner_uid \in MemberUids \ {rater} :
        NamesOf(list_items, owner_uid) \subseteq ScoredNames(scores, rater, owner_uid)

AllSubmitted == \A uid \in MemberUids : StateOf(list_states, uid) = "submitted"

\* the status the Status Resolver yields on the stored rows
ResolvedStatus ==
    TargetStatus(members, list_states, list_items, scores, OrDefault(max_names), invites_locked)

\* C1: the status is "completed" only if invites are locked, every member's
\* list is submitted and every member has scored every name of every other
\* member's list
CompletionGate ==
    (session_exists /\ status = "completed") =>
        invites_locked /\ AllSubmitted /\ AllPairsScored

\* C2: on a session that is not archived and has members, when every list is
\* submitted with exactly max_names items, every ordered pair of distinct
\* members is fully scored and invites are locked, the stored status is
\* "completed"
CompletionReached ==
    ( /\ session_exists
      /\ status # "archived"
      /\ members # {}
      /\ AllSubmitted
      /\ \A uid \in MemberUids : Cardinality(ItemsOf(list_items, uid)) = max_names
      /\ AllPairsScored
      /\ invites_locked )
    => status = "completed"

\* two members, each with a full submitted list, have fully scored each other
\* and invites are locked
CompletionReachedWitness ==
    /\ session_exists
    /\ MemberUids = {"a", "b"}
    /\ AllSubmitted
    /\ \A uid \in MemberUids : Cardinality(ItemsOf(list_items, uid)) = max_names
    /\ AllPairsScored
    /\ Cardinality(scores) = 2 * max_names
    /\ invites_locked
    /\ status = "completed"

\* a score request whose value another name of the same list and rater holds
RankConflict(email, inp) ==
    \E r \in scores : /\ r.list_owner_uid = inp.listOwnerUid
                      /\ r.rater_uid = email
                      /\ r.score_value = inp.scoreValue
                      /\ r.name # inp.name

\* C3: no two Score rows of one list owner and rater hold the same score
\* value, and a score request whose value another name of that pair already
\* holds is rejected
RankUniqueness ==
    /\ \A r1 \in scores : \A r2 \in scores :
           ( /\ r1 # r2
             /\ r1.list_owner_uid = r2.list_owner_uid
             /\ r1.rater_uid = r2.rater_uid )
           => r1.score_value # r2.score_value
    /\ \A e \in users : \A inp \in ScoreInputsOf(e) :
           RankConflict(e, inp) => SubmitScoreResult(e, inp) # "ok"

\* a rater holds a score for one name and asks for the same value on another
\* name of that list, and the request is refused for that reason alone
RankUniquenessWitness ==
    \E e \in users : \E inp \in ScoreInputsOf(e) :
        RankConflict(e, inp) /\ SubmitScoreResult(e, inp) = "rank-used"

\* C4: no Score row has the list owner as its rater, and a score request of a
\* caller for the caller's own list is never accepted
NoSelfScoring ==
    /\ \A r \in scores : r.rater_uid # r.list_owner_uid
    /\ \A e \in users : \A inp \in ScoreInputsOf(e) :
           inp.listOwnerUid = e => SubmitScoreResult(e, inp) # "ok"

\* a member with a submitted list and scores of its own asks to score a name
\* of its own list, and the request is refused for that reason alone
NoSelfScoringWitness ==
    \E e \in users : \E inp \in ScoreInputsOf(e) :
        /\ inp.listOwnerUid = e
        /\ SubmitScoreResult(e, inp) = "own-list"
        /\ \E r \in scores : r.rater_uid = e

\* C5: a score request is accepted only when the list owner's and the rater's
\* lists are submitted, and the list owner and the rater of every Score row
\* have a submitted list
ScoringGate ==
    /\ \A e \in users : \A inp \in ScoreInputsOf(e) :
           SubmitScoreResult(e, inp) = "ok" =>
               /\ StateOf(list_states, inp.listOwnerUid) = "submitted"
               /\ StateOf(list_states, e) = "submitted"
    /\ \A r \in scores :
           /\ StateOf(list_states, r.list_owner_uid) = "submitted"
           /\ StateOf(list_states, r.rater_uid) = "submitted"

\* scores exist while another member still drafts, and that member's score
\* request is refused because its own list is not submitted
ScoringGateWitness ==
    /\ scores # {}
    /\ \E e \in MemberUids : \E inp \in ScoreInputsOf(e) :
           /\ StateOf(list_states, e) = "draft"
           /\ SubmitScoreResult(e, inp) = "rater-not-submitted"

\* C6: the self ranks of the items of every submitted list are exactly the
\* values 1..max_names, each once
PermutationInvariant ==
    session_exists =>
        \A uid \in DOMAIN list_states :
            list_states[uid] = "submitted" =>
                /\ Cardinality(ItemsOf(list_items, uid)) = max_names
                /\ \A k \in 1..max_names :
                       Cardinality({r \in ItemsOf(list_items, uid) : r.self_rank = k}) = 1

\* C7: once the status is "archived" the session changes only by its deletion
ArchivedTerminal ==
    [][(session_exists /\ status = "archived") =>
           (~session_exists' \/ UNCHANGED <<sessionVars, rowVars>>)]_vars

\* the names whose score total over every Score row of the session is lowest
NameTotal(n) == SumPairs({<<r, r.score_value>> : r \in {x \in scores : x.name = n}})
LowestTotalNames ==
    {n \in {r.name : r \in scores} : \A m \in {r.name : r \in scores} : NameTotal(n) <= NameTotal(m)}

\* C8: the owner's tie-break start is accepted exactly in the states where the
\* Status Resolver yields "completed" and at least two names share the lowest
\* score total
TiebreakStartGate ==
    session_exists =>
        ( TiebreakStartResult(Owner) = "ok"
          <=> (ResolvedStatus = "completed" /\ Cardinality(LowestTotalNames) >= 2) )

\* C9: a tie-break start is refused when fewer than two names share the lowest
\* score total, and an accepted start stores exactly the names that share it
TieDetection ==
    /\ [](Cardinality(LowestTotalNames) < 2 => TiebreakStartResult(Owner) # "ok")
    /\ [][(~tiebreak_active /\ tiebreak_active') =>
              (tiebreak_names' = LowestTotalNames /\ Cardinality(LowestTotalNames) >= 2)]_vars

\* a tie-break is active on a name that two lists share and two raters scored
TieDetectionWitness ==
    /\ tiebreak_active
    /\ "ann" \in tiebreak_names
    /\ Cardinality(tiebreak_names) >= 2
    /\ tiebreak_names = LowestTotalNames
    /\ Cardinality({r \in scores : r.name = "ann"}) = 2
    /\ \E n \in {r.name : r \in scores} : n \notin tiebreak_names

\* the summed rank of a candidate over every cast vote
VoteTotal(n) == SumPairs({<<r, r.rank>> : r \in {x \in votes : x.name = n}})
LowestVoteNames ==
    {n \in tiebreak_names : \A m \in tiebreak_names : VoteTotal(n) <= VoteTotal(m)}

\* C10: a close of an active tie-break with cast votes stores as winners the
\* candidates whose summed rank is lowest, ends the tie-break, clears the
\* candidates and sets the status to "completed"
CloseWithVotes ==
    [][(tiebreak_active /\ votes # {} /\ session_exists' /\ ~tiebreak_active') =>
           /\ final_winners' = LowestVoteNames
           /\ tiebreak_names' = {}
           /\ status' = "completed"]_vars

\* a tie-break with votes of two members was closed, the winners are fewer
\* than the names voted on, and the status is "completed" though the Status
\* Resolver yields "active"
CloseWithVotesWitness ==
    /\ session_exists
    /\ ~tiebreak_active
    /\ Cardinality({r.rater_uid : r \in votes}) = 2
    /\ Cardinality({r.name : r \in votes}) >= 2
    /\ final_winners # {}
    /\ final_winners # {r.name : r \in votes}
    /\ tiebreak_names = {}
    /\ status = "completed"
    /\ ResolvedStatus = "active"

\* C11: a close of an active tie-break for which no vote was cast stores every
\* candidate as a final winner
CloseWithoutVotes ==
    [][(tiebreak_active /\ votes = {} /\ session_exists' /\ ~tiebreak_active') =>
           final_winners' = tiebreak_names]_vars

\* a tie-break was closed without a vote and every candidate won
CloseWithoutVotesWitness ==
    /\ session_exists
    /\ ~tiebreak_active
    /\ votes = {}
    /\ Cardinality(final_winners) >= 2
    /\ final_winners = LowestTotalNames
    /\ status = "completed"

\* C12: while no tie-break is active, close answers with the stored final
\* winners and changes nothing, so a second close gives the state and the
\* winners of the first
CloseIdempotent ==
    /\ []((session_exists /\ ~tiebreak_active) =>
              /\ TiebreakCloseResult(Owner) = "already-closed"
              /\ TiebreakCloseWinners(Owner) = final_winners)
    /\ [][(~tiebreak_active /\ TiebreakClose(Owner)) => UNCHANGED vars]_vars
    /\ [][(tiebreak_active /\ TiebreakClose(Owner)) =>
              /\ TiebreakCloseResult(Owner)' = "already-closed"
              /\ TiebreakCloseWinners(Owner)' = TiebreakCloseWinners(Owner)]_vars

\* a tie-break was closed with a single winner, and the owner's next close
\* finds it closed
CloseIdempotentWitness ==
    /\ session_exists
    /\ ~tiebreak_active
    /\ Cardinality(final_winners) = 1
    /\ votes # {}
    /\ TiebreakCloseResult(Owner) = "already-closed"
    /\ TiebreakCloseWinners(Owner) = final_winners

\* C13: a list save of a caller whose list is submitted is refused, finalizing
\* or not, and while the caller stays a member its list state stays submitted
\* and its list items stay as they are
SubmittedImmutable ==
    /\ [](session_exists =>
              \A e \in users : \A inp \in ListInputsOf(e) :
                  StateOf(list_states, e) = "submitted" => UpsertListResult(e, inp) # "ok")
    /\ [][\A uid \in Emails :
              (session_exists /\ StateOf(list_states, uid) = "submitted"
                  /\ session_exists' /\ uid \in {m.uid : m \in members'}) =>
                  /\ StateOf(list_states', uid) = "submitted"
                  /\ ItemsOf(list_items', uid) = ItemsOf(list_items, uid)]_vars

\* a member with a submitted list sends a draft save and a finalizing save on
\* an open session, and both are refused because the list is submitted
SubmittedImmutableWitness ==
    \E e \in MemberUids :
        /\ StateOf(list_states, e) = "submitted"
        /\ \E inp \in ListInputsOf(e) :
               inp.finalize /\ UpsertListResult(e, inp) = "already-submitted"
        /\ \E inp \in ListInputsOf(e) :
               ~inp.finalize /\ UpsertListResult(e, inp) = "already-submitted"

\* the names of a list save that are not blank, and the rank each is sent with
SentPositions(inp) == {i \in DOMAIN inp.names : Strip(inp.names[i]) # ""}
SentRank(inp, i) ==
    IF inp.names[i] \in DOMAIN inp.selfRanks THEN inp.selfRanks[inp.names[i]]
    ELSE IF Strip(inp.names[i]) \in DOMAIN inp.selfRanks THEN inp.selfRanks[Strip(inp.names[i])]
    ELSE i
\* the save does not carry max_names names ranked 1..max_names, each once
NotFullList(inp) ==
    \/ Cardinality(SentPositions(inp)) # max_names
    \/ {SentRank(inp, i) : i \in SentPositions(inp)} # 1..max_names

\* C14: once the template is set, a finalizing list save whose number of names
\* differs from max_names, or whose ranks are not the values 1..max_names each
\* once, is refused
FinalizeValidation ==
    (session_exists /\ template_ready) =>
        \A e \in users : \A inp \in ListInputsOf(e) :
            (inp.finalize /\ NotFullList(inp)) => UpsertListResult(e, inp) # "ok"

\* two Score rows have the same list owner, rater and name
SameKey(r1, r2) ==
    /\ r1.list_owner_uid = r2.list_owner_uid
    /\ r1.rater_uid = r2.rater_uid
    /\ r1.name = r2.name

\* C15: there is one Score row per list owner, rater and name, and a score for
\* a key that has a row replaces the row's value and leaves the number of rows
\* of that list owner and rater as it was
ScoreUpsert ==
    /\ [](\A r1 \in scores : \A r2 \in scores : SameKey(r1, r2) => r1 = r2)
    /\ [][\A r \in scores' \ scores : \A old \in scores :
              SameKey(r, old) =>
                  /\ old \notin scores'
                  /\ Cardinality(PairScores(scores', r.list_owner_uid, r.rater_uid))
                         = Cardinality(PairScores(scores, r.list_owner_uid, r.rater_uid))]_vars

\* a rater holds scores for two names of a list and sends another value for
\* one of them, which is accepted
ScoreUpsertWitness ==
    \E e \in users : \E inp \in ScoreInputsOf(e) :
        /\ SubmitScoreResult(e, inp) = "ok"
        /\ Cardinality(PairScores(scores, inp.listOwnerUid, e)) >= 2
        /\ \E old \in PairScores(scores, inp.listOwnerUid, e) :
               old.name = inp.name /\ old.score_value # inp.scoreValue

\* the persisted session fields and rows
persisted == <<sessionVars, members, list_states, list_items, scores, votes>>

\* C16: a list save, score submit, invite lock, participant removal or
\* tie-break start, vote or close that returns an error leaves every session
\* field, membership, list state, list item, score and tie-break vote as it
\* was before the call: no step that changes one of them is a step of a call
\* that returns an error
AllOrNothing ==
    [][(persisted' # persisted) =>
        /\ \A e \in users : \A inp \in ListInputsOf(e) :
               ~(UpsertList(e, inp) /\ UpsertListResult(e, inp) # "ok")
        /\ \A e \in users : \A inp \in ScoreInputsOf(e) :
               ~(SubmitScore(e, inp) /\ SubmitScoreResult(e, inp) # "ok")
        /\ \A e \in OwnerOpCallers :
               ~(LockInvites(e) /\ LockInvitesResult(e) # "ok")
        /\ \A r \in RemoveInputs :
               ~(r[1] \in users /\ RemoveParticipant(r[1], r[2])
                   /\ RemoveParticipantResult(r[1], r[2]) # "ok")
        /\ \A e \in OwnerOpCallers :
               ~(TiebreakStart(e) /\ TiebreakStartResult(e) # "ok")
        /\ \A e \in users : \A ranks \in VoteInputsOf(e) :
               ~(TiebreakVote(e, ranks) /\ TiebreakVoteResult(e, ranks) # "ok")
        /\ \A e \in OwnerOpCallers :
               ~(TiebreakClose(e) /\ TiebreakCloseResult(e) \notin {"ok", "already-closed"})
       ]_vars

\* an owner with a draft list sends a finalizing save that carries a new
\* slotCount and too few names for it, a member sends a score for a name that
\* is not in the list, and a caller who is not the owner asks for the lock,
\* the removal of a member and the start of a tie-break: all are refused
AllOrNothingWitness ==
    /\ \E inp \in ListInputsOf(Owner) :
           /\ inp.slotCount > 0 /\ inp.slotCount # max_names
           /\ UpsertListResult(Owner, inp) = "exactly-n"
    /\ \E e \in users : \E inp \in ScoreInputsOf(e) :
           SubmitScoreResult(e, inp) = "name-not-in-list"
    /\ \E e \in OwnerOpCallers :
           /\ LockInvitesResult(e) = "forbidden"
           /\ TiebreakStartResult(e) = "forbidden"
           /\ \E r \in RemoveInputs : r[1] = e /\ RemoveParticipantResult(e, r[2]) = "forbidden"

\* C17: the session's max_names lies in 4..100, is a multiple of 4 when the
\* stored focus is "mix" and is even when the stored focus is "girl" or "boy"
RequiredNamesConstraint ==
    session_exists =>
        /\ max_names \in MinNames..MaxNames
        /\ name_focus = "mix" => max_names % 4 = 0
        /\ name_focus \in {"girl", "boy"} => max_names % 2 = 0

\* C18: once the template is set, no step changes the session's max_names
TemplateOnce ==
    [][(session_exists /\ template_ready /\ session_exists') => max_names' = max_names]_vars

\* the Member rows with role owner
OwnerRows == {m \in members : m.role = "owner"}

\* C19: a session has exactly one member with role owner, and it is the
\* session's creator
ExactlyOneOwner ==
    session_exists => OwnerRows = {[uid |-> Owner, role |-> "owner"]}

\* the session has three members and the creator is the only owner
ExactlyOneOwnerWitness ==
    /\ session_exists
    /\ MemberUids = {"a", "b", "c"}
    /\ Cardinality(members) = 3
    /\ Cardinality(OwnerRows) = 1

\* C20: a step that removes member x leaves no list state, list item or score
\* of x, as list owner or as rater, leaves the membership, list state, list
\* items and the scores among the other members as they were, and stores the
\* status the Status Resolver yields on the rows that are left
RemovalCascade ==
    [][\A x \in Emails :
          (session_exists /\ session_exists' /\ IsMember(x) /\ x \notin {m.uid : m \in members'}) =>
              /\ x \notin DOMAIN list_states'
              /\ ItemsOf(list_items', x) = {}
              /\ \A r \in scores' : r.list_owner_uid # x /\ r.rater_uid # x
              /\ members' = {m \in members : m.uid # x}
              /\ \A y \in MemberUids \ {x} :
                     /\ StateOf(list_states', y) = StateOf(list_states, y)
                     /\ ItemsOf(list_items', y) = ItemsOf(list_items, y)
              /\ scores' = {r \in scores : r.list_owner_uid # x /\ r.rater_uid # x}
              /\ status' = TargetStatus(members', list_states', list_items', scores',
                                        OrDefault(max_names'), invites_locked')]_vars

\* member b gave and received scores and voted in a tie-break and was then
\* removed: the owner's list is as it was and no score is left
RemovalCascadeWitness ==
    /\ session_exists
    /\ ~IsMember("b")
    /\ \E r \in votes : r.rater_uid = "b"
    /\ "b" \notin DOMAIN list_states
    /\ ItemsOf(list_items, "b") = {}
    /\ Cardinality(ItemsOf(list_items, "a")) = max_names
    /\ StateOf(list_states, "a") = "submitted"
    /\ scores = {}
    /\ status = ResolvedStatus

\* the stored status after the Status Resolver ran on the stored rows of a
\* session whose stored status is stored_status
Resolved(stored_status) ==
    _recompute_session_status(stored_status, members, list_states, list_items, scores,
                              OrDefault(max_names), invites_locked)

\* C21: the Status Resolver run twice on the same rows stores the status it
\* stores when run once
ResolverIdempotent ==
    session_exists => Resolved(Resolved(status)) = Resolved(status)

\* a tie-break was closed on a session that is not fully scored: the stored
\* status is "completed", and the resolver stores "active" on the first call
\* and on the second
ResolverIdempotentWitness ==
    /\ session_exists
    /\ status = "completed"
    /\ final_winners # {}
    /\ ~tiebreak_active
    /\ Resolved(status) = "active"
    /\ Resolved(Resolved(status)) = "active"

\* C22: while the template is not ready every add-participants request is
\* refused, the owner's with a conflict, and a session with a member other
\* than the owner or with a pending invite has template_ready true
InviteNeedsTemplate ==
    session_exists =>
        /\ ~template_ready =>
               /\ \A e \in OwnerOpCallers : \A ps \in ParticipantInputs(e) :
                      AddParticipantsResult(e, ps) # "ok"
               /\ \A ps \in ParticipantInputs(Owner) :
                      AddParticipantsResult(Owner, ps) \in {"archived", "template-not-ready"}
        /\ (MemberUids # {Owner} \/ DOMAIN invites # {}) => template_ready

\* the owner of a session without template asks to add a participant and is
\* refused because the template is missing
InviteNeedsTemplateWitness ==
    /\ session_exists
    /\ ~template_ready
    /\ MemberUids = {Owner}
    /\ \E ps \in ParticipantInputs(Owner) :
           AddParticipantsResult(Owner, ps) = "template-not-ready"

\* the e-mails an accepted add-participants request invites: not the owner's,
\* not the ones asked for with role owner
InvitedEmails(ps) ==
    {ps[i].email : i \in {j \in DOMAIN ps : ps[j].email # Owner
                                             /\ _session_member_role(ps[j].role) # "owner"}}

\* C23: no e-mail is both a member and a pending invitee, an e-mail has at
\* most one pending invite, and an accepted add-participants request makes a
\* registered e-mail that is no member a participant with a draft list and
\* without pending invite, and leaves an unregistered e-mail with one pending
\* invite and without membership
InviteOutcome ==
    /\ [](\A e \in DOMAIN invites : invites[e] = 1 /\ ~IsMember(e))
    /\ [][(members' # members \/ invites' # invites) =>
             \A ps \in ParticipantInputs(Owner) :
                 (AddParticipantsResult(Owner, ps) = "ok" /\ AddParticipants(Owner, ps)) =>
                     \A x \in InvitedEmails(ps) :
                         /\ (x \in users /\ ~IsMember(x)) =>
                                /\ [uid |-> x, role |-> "participant"] \in members'
                                /\ StateOf(list_states', x) = "draft"
                                /\ x \notin DOMAIN invites'
                         /\ x \notin users =>
                                /\ x \in DOMAIN invites'
                                /\ invites'[x] = 1
                                /\ x \notin {m.uid : m \in members'}]_vars

\* the registered b is a member with a draft list and no pending invite, and
\* the unregistered c has one pending invite and no membership
InviteOutcomeWitness ==
    /\ session_exists
    /\ [uid |-> "b", role |-> "participant"] \in members
    /\ StateOf(list_states, "b") = "draft"
    /\ "b" \notin DOMAIN invites
    /\ "c" \notin users
    /\ "c" \in DOMAIN invites
    /\ invites["c"] = 1
    /\ ~IsMember("c")

\* a stored reset token that has not expired
ValidReset(token) == \E r \in reset_tokens : r.token = token /\ r.expires_at >= now

\* the account the stored reset token belongs to
ResetUser(token) == (CHOOSE r \in reset_tokens : r.token = token).user

\* C24: a reset with a stored unexpired token sets the new password, deletes
\* the token and every session token of the account; a reset with an
\* expired or unknown token changes nothing; a token that was issued and is
\* no longer stored is never stored again, so its second use is an unknown
\* token
ResetSingleUse ==
    /\ [][\A t \in ResetTokenInputs \ {0} : \A pw \in Passwords :
             ResetPassword(t, pw) =>
                 IF ValidReset(t)
                 THEN /\ ResetPasswordResult(t, pw) = "ok"
                      /\ check_password_hash(password_hash'[ResetUser(t)], pw)
                      /\ \A r \in reset_tokens' : r.token # t
                      /\ session_tokens'[ResetUser(t)] = 0
                      /\ ~ValidReset(t)'
                 ELSE /\ ResetPasswordResult(t, pw) = "invalid-or-expired"
                      /\ UNCHANGED vars]_vars
    /\ [][\A t \in 1 .. reset_issued :
             (\A r \in reset_tokens : r.token # t) => (\A r \in reset_tokens' : r.token # t)]_vars
    /\ [](\A r \in reset_tokens : r.token \in 1 .. reset_issued)

\* token 1 is gone and a second reset with it is refused, the stored token 2
\* has expired and is refused as well, and c, who got a session token at
\* signup, holds none and has the password p2
ResetSingleUseWitness ==
    /\ reset_issued = 2
    /\ \A r \in reset_tokens : r.token = 2 /\ r.expires_at < now
    /\ reset_tokens # {}
    /\ "c" \in users
    /\ check_password_hash(password_hash["c"], "p2")
    /\ session_tokens["c"] = 0
    /\ ResetPasswordResult(1, "p1") = "invalid-or-expired"
    /\ ResetPasswordResult(2, "p1") = "invalid-or-expired"

\* the error of a member's score request when the preconditions are checked
\* in the order: archived or completed, tie-break, list owner not submitted,
\* own list, rater not submitted, name not in list, value out of range
StatedScoreError(email, inp) ==
    IF status = "archived" THEN "archived"
    ELSE IF status = "completed" THEN "completed"
    ELSE IF tiebreak_active THEN "tiebreak-active"
    ELSE IF StateOf(list_states, inp.listOwnerUid) # "submitted" THEN "owner-not-submitted"
    ELSE IF email = inp.listOwnerUid THEN "own-list"
    ELSE IF StateOf(list_states, email) # "submitted" THEN "rater-not-submitted"
    ELSE IF inp.name \notin NamesOf(list_items, inp.listOwnerUid) THEN "name-not-in-list"
    ELSE IF inp.scoreValue < 1 \/ inp.scoreValue > OrDefault(max_names) THEN "score-range"
    ELSE "none"

\* C25: a member's refused score request carries the error of the first
\* failing precondition in the order archived or completed, tie-break, list
\* owner not submitted, own list, rater not submitted, name not in list,
\* value out of range
ScoreCheckOrder ==
    session_exists =>
        \A e \in MemberUids : \A inp \in ScoreInputsOf(e) :
            StatedScoreError(e, inp) # "none" =>
                SubmitScoreResult(e, inp) = StatedScoreError(e, inp)

\* C26: a request of an account that is no member of the session to save a
\* list, to score or to vote, and a request of an account that is not the
\* owner to an owner-only operation, is answered with the authorization
\* error, whatever the state of the session and whatever the request carries
AuthorizationFirst ==
    session_exists =>
        /\ \A e \in users \ MemberUids :
               /\ \A inp \in ListInputsOf(e) : UpsertListResult(e, inp) = "forbidden"
               /\ \A inp \in ScoreInputsOf(e) : SubmitScoreResult(e, inp) = "forbidden"
               /\ \A ranks \in VoteInputsOf(e) : TiebreakVoteResult(e, ranks) = "forbidden"
        /\ \A e \in users \ {Owner} :
               /\ \A ps \in ParticipantInputs(e) : AddParticipantsResult(e, ps) = "forbidden"
               /\ RemoveParticipantResult(e, "c") = "forbidden"
               /\ LockInvitesResult(e) = "forbidden"
               /\ TiebreakStartResult(e) = "forbidden"
               /\ TiebreakCloseResult(e) = "forbidden"
               /\ ArchiveSessionResult(e) = "forbidden"
               /\ DeleteSessionResult(e) = "forbidden"

\* C27: a tie-break start is accepted only from the owner, with invites
\* locked, status not completed and no tie-break active; the step that starts
\* a tie-break stores the tied names, empties the final winners and leaves no
\* tie-break vote
TiebreakStartEffect ==
    /\ [](\A e \in users :
              TiebreakStartResult(e) = "ok" =>
                  e = Owner /\ invites_locked /\ status # "completed" /\ ~tiebreak_active)
    /\ [][(~tiebreak_active /\ tiebreak_active') =>
              /\ TiebreakStartResult(Owner) = "ok"
              /\ tiebreak_names' = _first_place_tie_names(_score_totals(scores))
              /\ final_winners' = {}
              /\ votes' = {}]_vars

\* a tie-break has started and nobody has voted: invites are locked, the
\* status is active, the tied names are stored, no winner and no vote is stored
TiebreakStartEffectWitness ==
    /\ tiebreak_active
    /\ invites_locked
    /\ status = "active"
    /\ Cardinality(tiebreak_names) >= 2
    /\ tiebreak_names = _first_place_tie_names(_score_totals(scores))
    /\ final_winners = {}
    /\ votes = {}

\* the tie-break votes of one rater
VotesOf(vt, rater) == {r \in vt : r.rater_uid = rater}

\* the rows give every candidate name one rank and use every rank of 1..K once
FullRanking(rows) ==
    /\ {r.name : r \in rows} = tiebreak_names
    /\ {r.rank : r \in rows} = 1 .. Cardinality(tiebreak_names)
    /\ Cardinality(rows) = Cardinality(tiebreak_names)

\* C28: a tie-break vote is accepted only while a tie-break is active, from a
\* member, with a distinct rank of 1..K for every candidate name; while the
\* tie-break stays active the votes change only by an accepted vote, which
\* replaces the rows of its rater by its ranking and keeps the other rows;
\* and while a tie-break is active the rows of every rater are a permutation
\* of 1..K over exactly the candidate names
VotePermutation ==
    /\ [](\A e \in users : \A ranks \in VoteInputsOf(e) :
              TiebreakVoteResult(e, ranks) = "ok" =>
                  /\ tiebreak_active
                  /\ IsMember(e)
                  /\ tiebreak_names \subseteq DOMAIN ranks
                  /\ {ranks[n] : n \in tiebreak_names} = 1 .. Cardinality(tiebreak_names))
    /\ [][(votes' # votes /\ tiebreak_active /\ tiebreak_active') =>
              \E e \in MemberUids : \E ranks \in VoteInputsOf(e) :
                  /\ TiebreakVoteResult(e, ranks) = "ok"
                  /\ VotesOf(votes', e) =
                        {[rater_uid |-> e, name |-> n, rank |-> ranks[n]] : n \in tiebreak_names}
                  /\ \A o \in {r.rater_uid : r \in votes \cup votes'} \ {e} :
                        VotesOf(votes', o) = VotesOf(votes, o)]_vars
    /\ [](tiebreak_active =>
              \A rater \in {r.rater_uid : r \in votes} : FullRanking(VotesOf(votes, rater)))

\* a tie-break is active and two members have voted different full rankings
VotePermutationWitness ==
    /\ tiebreak_active
    /\ Cardinality(tiebreak_names) >= 2
    /\ \E x \in MemberUids : \E y \in MemberUids \ {x} :
           /\ FullRanking(VotesOf(votes, x))
           /\ FullRanking(VotesOf(votes, y))
           /\ \E r \in VotesOf(votes, x) :
                  [rater_uid |-> y, name |-> r.name, rank |-> r.rank] \notin votes

\* C29: the step that closes a tie-break leaves the status completed, and
\* from then on, while the session is not archived or deleted, the status
\* stays completed and no tie-break start is accepted (the final winners are
\* stored from the close until a start)
TiebreakTerminal ==
    /\ [][(session_exists /\ tiebreak_active /\ session_exists' /\ ~tiebreak_active') =>
              status' = "completed"]_vars
    /\ []((session_exists /\ final_winners # {} /\ status # "archived") =>
              (status = "completed" /\ TiebreakStartResult(Owner) # "ok"))

\* C30: the candidate names are stored exactly while a tie-break is active,
\* final winners are stored only while the status is completed or archived,
\* and no final winner is stored while a tie-break is active
CandidateAndWinnerSets ==
    session_exists =>
        /\ tiebreak_names # {} <=> tiebreak_active
        /\ final_winners # {} => status \in {"completed", "archived"}
        /\ tiebreak_active => final_winners = {}

\* C31: an accepted list save without finalize leaves every stored self-rank
\* of the saving member in 1..requiredNames and the member's list in draft
DraftClamp ==
    [][(list_items' # list_items) =>
          \A e \in users : \A inp \in ListInputsOf(e) :
              (~inp.finalize /\ UpsertList(e, inp) /\ UpsertListResult(e, inp) = "ok") =>
                  /\ \A r \in ItemsOf(list_items', e) : r.self_rank \in 1 .. OrDefault(max_names')
                  /\ StateOf(list_states', e) = "draft"]_vars

\* C32: a list save of a member other than the owner leaves max_names and
\* template_ready as they are, whatever slotCount, names and finalize it
\* carries, and changes nothing but that member's ListItem rows and ListState
\* and the session status
NonOwnerSaveFrame ==
    [][(persisted' # persisted) =>
          \A e \in users \ {Owner} : \A inp \in ListInputsOf(e) :
              UpsertList(e, inp) =>
                  /\ max_names' = max_names
                  /\ template_ready' = template_ready
                  /\ \A o \in Emails \ {e} :
                        /\ ItemsOf(list_items', o) = ItemsOf(list_items, o)
                        /\ StateOf(list_states', o) = StateOf(list_states, o)
                  /\ UNCHANGED <<users, session_exists, name_focus, invites_locked, tiebreak_active,
                                 tiebreak_names, final_winners, members, scores, votes, invites>>]_vars

\* the member b has saved a list in a session of four names, and b's save
\* that carries a slotCount of 8 is accepted
NonOwnerSaveFrameWitness ==
    /\ session_exists
    /\ IsMember("b")
    /\ max_names = 4
    /\ template_ready
    /\ Cardinality(ItemsOf(list_items, "b")) = 4
    /\ \E inp \in ListInputsOf("b") : inp.slotCount = 8 /\ UpsertListResult("b", inp) = "ok"

\* C33: a step that makes an account other than the owner a member of the
\* session is that account's accepted join with a pending invite addressed
\* to its e-mail
MemberOnlyByJoin ==
    [][\A x \in Emails \ {Owner} :
          (session_exists /\ ~IsMember(x) /\ x \in {m.uid : m \in members'}) =>
              /\ x \in DOMAIN invites
              /\ JoinSessionResult(x, x) = "ok"
              /\ JoinSession(x, x)]_vars

\* two requests in flight of one rater for one list that give one value to
\* two names
SameValueRace(r1, r2) ==
    /\ r1.email = r2.email
    /\ r1.inp.listOwnerUid = r2.inp.listOwnerUid
    /\ r1.inp.scoreValue = r2.inp.scoreValue
    /\ r1.inp.name # r2.inp.name

\* C34: of two score requests in flight of one rater for one list that give
\* the same value to two names at most one commits: when one has committed
\* the commit of the other fails, and the committed rows of a rater for a
\* list never hold one value twice
RaceRankUniqueness ==
    /\ [](\A r1 \in inflight : \A r2 \in inflight :
              (SameValueRace(r1, r2) /\ r1.phase = "committed" /\ r2.phase = "checked")
                  => FlushFails(scores, r2))
    /\ [](\A x \in scores : \A y \in scores :
              (x.list_owner_uid = y.list_owner_uid /\ x.rater_uid = y.rater_uid /\ x.name # y.name)
                  => x.score_value # y.score_value)

\* C35: the writes of a score request and the status they lead to become
\* visible in one step: in no state has a request committed its Score row
\* while the stored status of an active or completed session differs from
\* the status the resolver yields on the stored rows, and no tie-break start
\* is accepted in such a state
StatusWithWrites ==
    \A req \in inflight :
        (req.phase = "committed" /\ session_exists /\ ~tiebreak_active) =>
            /\ status = TargetStatus(members, list_states, list_items, scores,
                                     OrDefault(max_names), invites_locked)
            /\ (TargetStatus(members, list_states, list_items, scores,
                             OrDefault(max_names), invites_locked) = "completed"
                    => TiebreakStartResult(Owner) # "ok")

\* C36: no session is completed while its tie-break is active, and a step
\* that completes a session with an active tie-break ends the tie-break
CompletedExcludesTiebreak ==
    /\ [](session_exists => ~(status = "completed" /\ tiebreak_active))
    /\ [][(session_exists /\ tiebreak_active /\ status # "completed" /\ session_exists'
           /\ status' = "completed") => ~tiebreak_active']_vars

\* C37: once the invites of a session are locked they stay locked and the
\* session gains no member
LockClosesMembership ==
    [][(session_exists /\ invites_locked /\ session_exists') =>
          /\ invites_locked'
          /\ {m.uid : m \in members'} \subseteq MemberUids]_vars

\* C38: the rater and the list owner of every Score row are members of the
\* session, its name is a name of the list owner's stored list, and so no
\* rater has scored more names of a list than the list holds
ScoreIntegrity ==
    /\ \A r \in scores :
           /\ IsMember(r.rater_uid)
           /\ IsMember(r.list_owner_uid)
           /\ r.name \in NamesOf(list_items, r.list_owner_uid)
    /\ \A rater \in MemberUids : \A owner_uid \in MemberUids :
           Cardinality(ScoredNames(scores, rater, owner_uid))
               <= Cardinality(NamesOf(list_items, owner_uid))

\* a member was removed from a session of three members, and the scores that
\* the two remaining members gave each other are stored
ScoreIntegrityWitness ==
    /\ session_exists
    /\ "c" \in users
    /\ MemberUids = {"a", "b"}
    /\ StateOf(list_states, "c") = "none"
    /\ \E r \in scores : r.rater_uid = "a" /\ r.list_owner_uid = "b"
    /\ \E r \in scores : r.rater_uid = "b" /\ r.list_owner_uid = "a"

\* C39: the rater of every TieBreakVote row is a member of the session, and
\* the winners of a close are the names with the lowest rank sum over the
\* votes of the members
VotesOfMembers ==
    /\ [](session_exists => \A v \in votes : IsMember(v.rater_uid))
    /\ [][(session_exists /\ tiebreak_active /\ session_exists' /\ ~tiebreak_active'
           /\ \E v \in votes : IsMember(v.rater_uid)) =>
              final_winners' =
                  LET cast == {v \in votes : IsMember(v.rater_uid)}
                      total(n) == SumPairs({<<v.rater_uid, v.rank>> : v \in {x \in cast : x.name = n}})
                  IN  {n \in tiebreak_names : \A m \in tiebreak_names : total(n) <= total(m)}]_vars
====
